---- MODULE Spec2Model ----
(***************************************************************************)
(* A model of octobot's login / session handlers (src/server/login.rs) and *)
(* of its plaintext-to-HTTPS redirect service                              *)
(* (src/server/redirect_service.rs).                                       *)
(*                                                                         *)
(* Strings are sequences of one-character strings, so that concatenation   *)
(* is \o and formatting / parsing are real computations.  Byte strings are *)
(* sequences of numbers in 0..255.                                         *)
(***************************************************************************)
EXTENDS Integers, Sequences, FiniteSets, TLC

VARIABLES
    config,      \* Arc<Config>: [admin, ldap], immutable after construction
    sessions,    \* Sessions store: the set of currently valid session ids
    issued,      \* Sessions store: how many ids new_session has minted
    last,        \* the last request handled: its input, response and calls
    https_port,  \* RedirectService.https_port
    redirect,    \* the last rewrite_uri call: its inputs and its result
    credential,  \* a stored password hash and the last verification of it
    inflight,    \* the request each worker is handling and how far it is
    logged_out   \* the identifiers whose logout has returned to its caller

vars == <<config, sessions, issued, last, https_port, redirect, credential,
          inflight, logged_out>>

None == [some |-> FALSE]
Some(v) == [some |-> TRUE, val |-> v]

\* ------------------------------------------------------------------ bounds

\* The number of sessions the store mints in one run.
MaxSessions == 3

\* ------------------------------------------------------- bytes and strings

\* The characters the model's strings are made of, with their byte values.
Ord(c) ==
    CASE c = "p" -> 112 [] c = "q" -> 113 [] c = "r" -> 114
      [] c = "s" -> 115 [] c = "t" -> 116

\* str::as_bytes
AsBytes(s) == [i \in DOMAIN s |-> Ord(s[i])]

LowerHex == <<"0","1","2","3","4","5","6","7","8","9","a","b","c","d","e","f">>
UpperHex == <<"0","1","2","3","4","5","6","7","8","9","A","B","C","D","E","F">>
HexWhitespace == {" ", "\r", "\n", "\t"}

\* The value of each hex character, of either case.
HexValues ==
    [c \in {LowerHex[i] : i \in 1..16} \cup {UpperHex[i] : i \in 1..16} |->
        (CHOOSE i \in 1..16 : LowerHex[i] = c \/ UpperHex[i] = c) - 1]

IsHexChar(c) == c \in DOMAIN HexValues
HexVal(c) == HexValues[c]

\* ToHex::to_hex: two lowercase hex characters per byte.
ToHex(bytes) ==
    [i \in 1..(2 * Len(bytes)) |->
        IF i % 2 = 1 THEN LowerHex[(bytes[(i + 1) \div 2] \div 16) + 1]
        ELSE LowerHex[(bytes[i \div 2] % 16) + 1]]

\* FromHex::from_hex: either case is accepted, whitespace is skipped, any
\* other character is an error (InvalidHexCharacter), and so is an odd
\* number of hex characters (InvalidHexLength); otherwise each pair of hex
\* characters is one byte.
FromHex(s) ==
    LET chars == SelectSeq(s, LAMBDA c : c \notin HexWhitespace) IN
    IF \E i \in DOMAIN chars : ~IsHexChar(chars[i]) THEN
        [ok |-> FALSE, bytes |-> <<>>]
    ELSE IF Len(chars) % 2 # 0 THEN
        [ok |-> FALSE, bytes |-> <<>>]
    ELSE
        [ok |-> TRUE,
         bytes |-> [i \in 1..(Len(chars) \div 2) |->
                       16 * HexVal(chars[2 * i - 1]) + HexVal(chars[2 * i])]]

\* ----------------------------------------------------- credential primitive

CREDENTIAL_LEN == 32
pbdkf2_iterations == 100000

RECURSIVE WeightedSum(_, _)
WeightedSum(bytes, k) ==
    IF bytes = <<>> THEN 0
    ELSE k * Head(bytes) + WeightedSum(Tail(bytes), k + 1)

\* One output block of the key-derivation function (ring's PBKDF2 over
\* HMAC-SHA256), idx = 1, 2, ...: a stand-in that is deterministic in (salt,
\* secret, iterations, idx) and collision-free on the model's passwords and
\* salts, as the real function is taken to be.
DeriveBlock(iterations, salt, secret, idx) ==
    LET seed == 3 * WeightedSum(secret, 1) + 5 * WeightedSum(salt, 1)
                + 7 * Len(secret) + 11 * Len(salt) + (iterations % 251)
    IN  [j \in 1..CREDENTIAL_LEN |-> (seed * idx + 13 * j) % 256]

\* pbkdf2::derive into a buffer of CREDENTIAL_LEN bytes (one block).
Pbkdf2Derive(iterations, salt, secret) == DeriveBlock(iterations, salt, secret, 1)

\* pbkdf2::verify: the previously derived bytes are compared chunk by chunk
\* (chunks of the digest's output length) with the blocks derived anew; a
\* last chunk shorter than a block is compared with that block's prefix.
RECURSIVE Pbkdf2VerifyFrom(_, _, _, _, _)
Pbkdf2VerifyFrom(iterations, salt, secret, previously_derived, idx) ==
    IF previously_derived = <<>> THEN TRUE
    ELSE LET n == IF Len(previously_derived) < CREDENTIAL_LEN
                  THEN Len(previously_derived) ELSE CREDENTIAL_LEN
             chunk == SubSeq(previously_derived, 1, n)
             rest == SubSeq(previously_derived, n + 1, Len(previously_derived))
             derived == SubSeq(DeriveBlock(iterations, salt, secret, idx), 1, n)
         IN  (derived = chunk)
             /\ Pbkdf2VerifyFrom(iterations, salt, secret, rest, idx + 1)

Pbkdf2Verify(iterations, salt, secret, previously_derived) ==
    Pbkdf2VerifyFrom(iterations, salt, secret, previously_derived, 1)

\* store_password with the salt and the password in each other's place.
store_password_swapped(pass, salt) ==
    ToHex(Pbkdf2Derive(pbdkf2_iterations, AsBytes(pass), AsBytes(salt)))

store_password(pass, salt) ==
    ToHex(Pbkdf2Derive(pbdkf2_iterations, AsBytes(salt), AsBytes(pass)))

\* verify_password that takes is_err() for is_ok().
verify_password_inverted(pass, salt, pass_hash) ==
    LET h == FromHex(pass_hash) IN
    IF ~h.ok THEN FALSE
    ELSE ~Pbkdf2Verify(pbdkf2_iterations, AsBytes(salt), AsBytes(pass), h.bytes)

verify_password(pass, salt, pass_hash) ==
    LET h == FromHex(pass_hash) IN
    IF ~h.ok THEN FALSE
    ELSE Pbkdf2Verify(pbdkf2_iterations, AsBytes(salt), AsBytes(pass), h.bytes)

\* ------------------------------------------------------------ configuration

AdminName == <<"r">>
Usernames == {AdminName, <<"t">>}
Passwords == {<<"p">>, <<"q">>, <<"p", "q">>}
AdminSalt == <<"s">>

\* The stored admin hashes the model is configured with: the hash of a
\* password under the admin salt, the same in upper case, the hash of that
\* password under another salt, a string that is not hex, and a hash cut
\* short to its first byte.
StoredHashes ==
    LET good == store_password(<<"p">>, AdminSalt) IN
    { good,
      [i \in DOMAIN good |-> UpperHex[HexVal(good[i]) + 1]],
      store_password(<<"p">>, <<"t">>),
      <<"z", "z">>,
      SubSeq(good, 1, 2) }

Configs ==
    [ admin : {None} \cup
              { Some([name |-> AdminName, salt |-> AdminSalt, pass_hash |-> h]) :
                    h \in StoredHashes },
      ldap  : {None, Some("ldap")} ]

\* What ldap_auth::auth can return: Ok(true), Ok(false), Err(e).
LdapResults == {"Ok(true)", "Ok(false)", "Err"}

\* --------------------------------------------------------------- responses

StatusOK == 200
StatusUnauthorized == 401
StatusForbidden == 403
StatusMovedPermanently == 301
StatusInternalServerError == 500

\* util::new_json_resp: 200 with a JSON body.
new_json_resp(json) ==
    [status |-> StatusOK, body |-> json]

\* util::new_empty_resp: the given status with an empty body.
new_empty_resp(status) ==
    [status |-> status, body |-> <<>>]

\* util::new_msg_resp: the given status with the message as the body.
new_msg_resp(status, msg) ==
    [status |-> status, body |-> msg]

\* Handler::respond_with
respond_with(status, msg) ==
    [status |-> status, body |-> msg]

invalid_session == new_msg_resp(StatusForbidden, <<"Invalid session">>)

\* json!({"session": sess_id}).to_string()
SessionJson(sess_id) == <<"{", "\"session\"", ":", "\"">> \o sess_id \o <<"\"", "}">>

EmptyJson == <<"{", "}">>

\* ----------------------------------------------------------- session store

\* The n-th identifier the store mints.
SessionId(n) == <<"s", ToString(n)>>

IssuedIds == {SessionId(n) : n \in 1..issued}

\* Sessions::new_session: mints an identifier never used before and
\* registers it as valid.
new_session(valid, count) ==
    [id |-> SessionId(count + 1),
     sessions |-> valid \cup {SessionId(count + 1)},
     issued |-> count + 1]

\* Sessions::is_valid_session
is_valid_session(valid, sess) == sess \in valid

\* remove_session that returns before the identifier is gone from the store.
remove_session_deferred(valid, sess) == valid

\* Sessions::remove_session: removing an identifier that is not there is
\* not an error.
remove_session(valid, sess) == valid \ {sess}

\* ----------------------------------------------------------------- requests

InvalidByte == "0xFF"
ReplacementChar == "U+FFFD"

\* String::from_utf8_lossy: a byte that is not UTF-8 becomes U+FFFD.
from_utf8_lossy(h) ==
    [i \in DOMAIN h |-> IF h[i] = InvalidByte THEN ReplacementChar ELSE h[i]]

\* get_session: the `session` header, if the request has one.
get_session(req) ==
    IF req.session.some THEN Some(from_utf8_lossy(req.session.val)) ELSE None

\* The `session` headers a client sends: absent, an identifier the store
\* has issued, or a value the store never issues (a client cannot guess an
\* identifier that is yet to be minted).
SessionHeaders ==
    {None} \cup {Some(h) : h \in IssuedIds \cup
                     {<<"x">>, <<InvalidByte>>, <<ReplacementChar>>}}

LoginRequests == [username : Usernames, password : Passwords]

\* ------------------------------------------------------------ LoginHandler

\* The admin check: Option<bool> `success` after it.
AdminStep(cfg, login_req) ==
    IF cfg.admin.some /\ cfg.admin.val.name = login_req.username THEN
        IF verify_password(login_req.password, cfg.admin.val.salt,
                           cfg.admin.val.pass_hash)
        THEN Some(TRUE)
        ELSE Some(FALSE)
    ELSE None

\* LdapStep without the `success.is_none()` guard: the directory is asked
\* even when the admin check has decided.
LdapStepUnguarded(success, cfg, login_req, ldap_result) ==
    IF cfg.ldap.some THEN
        [success |-> IF ldap_result = "Ok(true)" THEN Some(TRUE) ELSE success,
         calls |-> << <<"ldap_auth::auth", login_req.username,
                        login_req.password, cfg.ldap.val>> >>]
    ELSE [success |-> success, calls |-> <<>>]

\* LdapStep that takes a fault of the directory for a success.
LdapStepFailOpen(success, cfg, login_req, ldap_result) ==
    IF ~success.some /\ cfg.ldap.some THEN
        [success |-> IF ldap_result \in {"Ok(true)", "Err"} THEN Some(TRUE)
                     ELSE success,
         calls |-> << <<"ldap_auth::auth", login_req.username,
                        login_req.password, cfg.ldap.val>> >>]
    ELSE [success |-> success, calls |-> <<>>]

\* LdapStep that asks the directory a second time when it faults.
LdapStepRetries(success, cfg, login_req, ldap_result) ==
    LET call == <<"ldap_auth::auth", login_req.username,
                  login_req.password, cfg.ldap.val>> IN
    IF ~success.some /\ cfg.ldap.some THEN
        [success |-> IF ldap_result = "Ok(true)" THEN Some(TRUE) ELSE success,
         calls |-> IF ldap_result = "Err" THEN <<call, call>> ELSE <<call>>]
    ELSE [success |-> success, calls |-> <<>>]

\* The directory check: `success` after it and the calls it made.
\* ldap_result is what ldap_auth::auth returns if it is called.
LdapStep(success, cfg, login_req, ldap_result) ==
    IF ~success.some /\ cfg.ldap.some THEN
        [success |-> IF ldap_result = "Ok(true)" THEN Some(TRUE) ELSE success,
         calls |-> << <<"ldap_auth::auth", login_req.username,
                        login_req.password, cfg.ldap.val>> >>]
    ELSE [success |-> success, calls |-> <<>>]

\* LoginDecide that answers a success without registering the session.
LoginDecideNoMint(success, valid, count) ==
    IF success = Some(TRUE) THEN
        [resp |-> new_json_resp(SessionJson(SessionId(count + 1))),
         calls |-> <<>>,
         sessions |-> valid, issued |-> count + 1]
    ELSE
        [resp |-> new_empty_resp(StatusUnauthorized),
         calls |-> <<>>,
         sessions |-> valid, issued |-> count]

\* LoginDecide that mints the session before it looks at the outcome.
LoginDecideMintFirst(success, valid, count) ==
    LET s == new_session(valid, count) IN
    IF success = Some(TRUE) THEN
        [resp |-> new_json_resp(SessionJson(s.id)),
         calls |-> << <<"new_session">> >>,
         sessions |-> s.sessions, issued |-> s.issued]
    ELSE
        [resp |-> new_empty_resp(StatusUnauthorized),
         calls |-> << <<"new_session">> >>,
         sessions |-> s.sessions, issued |-> s.issued]

\* LoginDecide that tells a rejected admin password from the other
\* failures by its status.
LoginDecideTellsWhy(success, valid, count) ==
    IF success = Some(TRUE) THEN
        LET s == new_session(valid, count) IN
        [resp |-> new_json_resp(SessionJson(s.id)),
         calls |-> << <<"new_session">> >>,
         sessions |-> s.sessions, issued |-> s.issued]
    ELSE
        [resp |-> IF success = Some(FALSE)
                  THEN new_empty_resp(StatusForbidden)
                  ELSE new_empty_resp(StatusUnauthorized),
         calls |-> <<>>,
         sessions |-> valid, issued |-> count]

\* The final decision: the response, the calls and the store afterwards.
LoginDecide(success, valid, count) ==
    IF success = Some(TRUE) THEN
        LET s == new_session(valid, count) IN
        [resp |-> new_json_resp(SessionJson(s.id)),
         calls |-> << <<"new_session">> >>,
         sessions |-> s.sessions, issued |-> s.issued]
    ELSE
        [resp |-> new_empty_resp(StatusUnauthorized),
         calls |-> <<>>,
         sessions |-> valid, issued |-> count]

\* LoginHandler::handle on a request body that parsed as a LoginRequest,
\* from the directory check on: a is `success` as the admin check left it.
LoginHandle(a, cfg, valid, count, login_req, ldap_result) ==
    LET l == LdapStep(a, cfg, login_req, ldap_result)
        d == LoginDecide(l.success, valid, count)
    IN  [resp |-> d.resp, calls |-> l.calls \o d.calls, outcome |-> l.success,
         sessions |-> d.sessions, issued |-> d.issued]

\* ----------------------------------------- logout, session check and filter

\* LogoutHandle that leaves the session in the store.
LogoutHandleNoRemove(valid, req) ==
    LET sess == get_session(req) IN
    IF ~sess.some THEN
        [resp |-> invalid_session, calls |-> <<>>, sessions |-> valid]
    ELSE
        [resp |-> new_json_resp(EmptyJson), calls |-> <<>>, sessions |-> valid]

\* LogoutHandle that refuses an identifier the store does not hold.
LogoutHandleChecksValid(valid, req) ==
    LET sess == get_session(req) IN
    IF ~sess.some THEN
        [resp |-> invalid_session, calls |-> <<>>, sessions |-> valid]
    ELSE IF ~is_valid_session(valid, sess.val) THEN
        [resp |-> invalid_session,
         calls |-> << <<"is_valid_session", sess.val>> >>,
         sessions |-> valid]
    ELSE
        [resp |-> new_json_resp(EmptyJson),
         calls |-> << <<"is_valid_session", sess.val>>,
                      <<"remove_session", sess.val>> >>,
         sessions |-> remove_session(valid, sess.val)]

\* LogoutHandler::handle
LogoutHandle(valid, req) ==
    LET sess == get_session(req) IN
    IF ~sess.some THEN
        [resp |-> invalid_session, calls |-> <<>>, sessions |-> valid]
    ELSE
        [resp |-> new_json_resp(EmptyJson),
         calls |-> << <<"remove_session", sess.val>> >>,
         sessions |-> remove_session(valid, sess.val)]

\* SessionCheckHandle that takes a missing header for an empty identifier.
SessionCheckHandleDefaultId(valid, req) ==
    LET sess == get_session(req)
        id == IF sess.some THEN sess.val ELSE <<>>
    IN  [resp |-> IF is_valid_session(valid, id)
                  THEN respond_with(StatusOK, <<>>)
                  ELSE invalid_session,
         calls |-> << <<"is_valid_session", id>> >>,
         sessions |-> valid]

\* SessionCheckHandle that answers 200 to every request with a header.
SessionCheckHandleNoLookup(valid, req) ==
    LET sess == get_session(req) IN
    IF ~sess.some THEN
        [resp |-> invalid_session, calls |-> <<>>, sessions |-> valid]
    ELSE
        [resp |-> respond_with(StatusOK, <<>>), calls |-> <<>>,
         sessions |-> valid]

\* SessionCheckHandle that uses a session up: a valid identifier is removed
\* once it has been checked.
SessionCheckHandleConsumes(valid, req) ==
    LET sess == get_session(req) IN
    IF ~sess.some THEN
        [resp |-> invalid_session, calls |-> <<>>, sessions |-> valid]
    ELSE
        [resp |-> IF is_valid_session(valid, sess.val)
                  THEN respond_with(StatusOK, <<>>)
                  ELSE invalid_session,
         calls |-> << <<"is_valid_session", sess.val>>,
                      <<"remove_session", sess.val>> >>,
         sessions |-> remove_session(valid, sess.val)]

\* SessionCheckHandler::handle
SessionCheckHandle(valid, req) ==
    LET sess == get_session(req) IN
    IF ~sess.some THEN
        [resp |-> invalid_session, calls |-> <<>>, sessions |-> valid]
    ELSE
        [resp |-> IF is_valid_session(valid, sess.val)
                  THEN respond_with(StatusOK, <<>>)
                  ELSE invalid_session,
         calls |-> << <<"is_valid_session", sess.val>> >>,
         sessions |-> valid]

Continue == [kind |-> "Continue"]
Halt(resp) == [kind |-> "Halt", resp |-> resp]

\* SessionFilter that lets every request with a `session` header through.
SessionFilterHeaderOnly(valid, req) ==
    LET sess == get_session(req) IN
    IF ~sess.some THEN
        [resp |-> Halt(invalid_session), calls |-> <<>>, sessions |-> valid]
    ELSE
        [resp |-> Continue, calls |-> <<>>, sessions |-> valid]

\* LoginSessionFilter::filter
SessionFilter(valid, req) ==
    LET sess == get_session(req) IN
    IF ~sess.some THEN
        [resp |-> Halt(invalid_session), calls |-> <<>>, sessions |-> valid]
    ELSE
        [resp |-> IF is_valid_session(valid, sess.val)
                  THEN Continue
                  ELSE Halt(invalid_session),
         calls |-> << <<"is_valid_session", sess.val>> >>,
         sessions |-> valid]

\* --------------------------------------------------------- RedirectService

DecimalDigits == <<"0","1","2","3","4","5","6","7","8","9">>

\* format!("{}", n) of an unsigned number: its decimal digits.
RECURSIVE Decimal(_)
Decimal(n) ==
    IF n < 10 THEN <<DecimalDigits[n + 1]>>
    ELSE Decimal(n \div 10) \o <<DecimalDigits[(n % 10) + 1]>>

\* The ports RedirectService::new is given.
HttpsPorts == {99, 8443}

\* A Uri as the code reads it: host(), port_part(), path() and query().
\* An authority may be a name or a bracketed IPv6 literal; a port comes
\* only with a host; a Uri made of an authority alone has an empty path,
\* and a Uri with an authority and no path has the path "/".
UriHosts == { <<"h">>, <<"[", ":", ":", "1", "]">> }
UriPorts == { <<"2", "0">>, <<"9", "9">> }
UriPaths == { <<"/">>, <<"/", "p">> }
UriQueries == { <<"x", "=", "1">> }

OriginFormUris ==
    [host : {None}, port : {None},
     path : UriPaths \cup {<<"*">>},
     query : {None} \cup {Some(q) : q \in UriQueries}]

AbsoluteFormUris ==
    [host : {Some(h) : h \in UriHosts},
     port : {None} \cup {Some(p) : p \in UriPorts},
     path : UriPaths,
     query : {None} \cup {Some(q) : q \in UriQueries}]

AuthorityFormUris ==
    [host : {Some(<<"o">>)},
     port : {None} \cup {Some(p) : p \in UriPorts},
     path : {<<>>},
     query : {None}]

\* The request targets a request arrives with.
RequestUris == OriginFormUris \cup AbsoluteFormUris \cup AuthorityFormUris

\* The Host headers a request arrives with: absent, or a value that is
\* visible ASCII or not and that parses as a Uri (of any form) or does not.
HostHeaderValues ==
    [visible_ascii : {TRUE},
     uri : {None} \cup {Some(u) : u \in AuthorityFormUris}
                  \cup {Some([host |-> None, port |-> None,
                              path |-> <<"/", "p">>, query |-> None])}]
    \cup
    {[visible_ascii |-> FALSE, uri |-> None]}

HostHeaders == {None} \cup {Some(v) : v \in HostHeaderValues}

\* get_host_header: the Host header, if it is there, is a str and parses.
get_host_header(headers) ==
    IF ~headers.host.some THEN None
    ELSE IF ~headers.host.val.visible_ascii THEN None
    ELSE headers.host.val.uri

\* maybe_add_port that keeps the port the request named.
maybe_add_port_original(port, new_url, req_port) ==
    IF req_port.some THEN new_url \o <<":">> \o req_port.val ELSE new_url

\* RedirectService::maybe_add_port
maybe_add_port(port, new_url, req_port) ==
    IF req_port.some THEN new_url \o <<":">> \o Decimal(port) ELSE new_url

HttpsScheme == <<"h", "t", "t", "p", "s", ":", "/", "/">>

\* rewrite_uri that asks the Host header first and the request URI second.
rewrite_uri_header_first(port, uri, host_header) ==
    LET with_host ==
            IF host_header.some /\ host_header.val.host.some THEN
                maybe_add_port(port, HttpsScheme \o host_header.val.host.val,
                               host_header.val.port)
            ELSE IF uri.host.some THEN
                maybe_add_port(port, HttpsScheme \o uri.host.val, uri.port)
            ELSE HttpsScheme
        with_path == with_host \o uri.path
    IN  IF uri.query.some THEN with_path \o <<"?">> \o uri.query.val
        ELSE with_path

\* RedirectService::rewrite_uri
rewrite_uri(port, uri, host_header) ==
    LET with_host ==
            IF uri.host.some THEN
                maybe_add_port(port, HttpsScheme \o uri.host.val, uri.port)
            ELSE IF host_header.some /\ host_header.val.host.some THEN
                maybe_add_port(port, HttpsScheme \o host_header.val.host.val,
                               host_header.val.port)
            ELSE HttpsScheme
        with_path == with_host \o uri.path
    IN  IF uri.query.some THEN with_path \o <<"?">> \o uri.query.val
        ELSE with_path

\* HeaderValue::from_str refuses the control characters other than a tab.
ControlChars == {"\n", "\r", "0x00", "0x7F"}
IsHeaderValue(str) == \A i \in DOMAIN str : str[i] \notin ControlChars

\* RedirectHandle that redirects to the request's own path and query.
RedirectHandleRelative(port, req) ==
    LET host_header == get_host_header(req.headers)
        new_uri_str == rewrite_uri(port, req.uri, host_header)
        target == IF req.uri.query.some
                  THEN req.uri.path \o <<"?">> \o req.uri.query.val
                  ELSE req.uri.path
    IN  [new_uri_str |-> new_uri_str,
         resp |-> [status |-> StatusMovedPermanently, body |-> <<>>,
                   location |-> Some(target)]]

\* RedirectService::handle
RedirectHandle(port, req) ==
    LET host_header == get_host_header(req.headers)
        new_uri_str == rewrite_uri(port, req.uri, host_header)
    IN  IF ~IsHeaderValue(new_uri_str) THEN
            [new_uri_str |-> new_uri_str,
             resp |-> [status |-> StatusInternalServerError, body |-> <<>>,
                       location |-> None]]
        ELSE
            [new_uri_str |-> new_uri_str,
             resp |-> [status |-> StatusMovedPermanently, body |-> <<>>,
                       location |-> Some(new_uri_str)]]

\* ------------------------------------------------------------------ actions

NoRequest ==
    [op |-> "none", req |-> None, ldap_result |-> "none", outcome |-> None,
     resp |-> None, calls |-> <<>>, before |-> {}]

NoRedirect == [called |-> FALSE]

NoCredential == [hash |-> None, from |-> None, check |-> None]

\* The requests that are handled at the same time, one per worker thread.
Workers == {"w1", "w2"}
Idle == [pc |-> "idle"]

Init ==
    /\ config \in Configs
    /\ sessions = {}
    /\ issued = 0
    /\ last = NoRequest
    /\ https_port = 8443
    /\ redirect = NoRedirect
    /\ credential = NoCredential
    /\ inflight = [w \in Workers |-> Idle]
    /\ logged_out = {}

\* A login request is handled.
Login ==
    \E login_req \in LoginRequests :
        LET a == AdminStep(config, login_req) IN
        \E ldap_result \in LdapResults :
            LET r == LoginHandle(a, config, sessions, issued, login_req,
                                 ldap_result) IN
            /\ r.issued <= MaxSessions
            /\ sessions' = r.sessions
            /\ issued' = r.issued
            /\ last' = [op |-> "login", req |-> login_req,
                        ldap_result |-> ldap_result, outcome |-> r.outcome,
                        resp |-> r.resp, calls |-> r.calls, before |-> sessions]
            /\ UNCHANGED <<config, https_port, redirect, credential,
                           inflight, logged_out>>

\* A logout request is handled.
Logout ==
    \E req \in [session : SessionHeaders] :
        LET r == LogoutHandle(sessions, req) IN
        /\ sessions' = r.sessions
        /\ last' = [op |-> "logout", req |-> req, ldap_result |-> "none",
                    outcome |-> None, resp |-> r.resp, calls |-> r.calls,
                    before |-> sessions]
        /\ UNCHANGED <<config, issued, https_port, redirect, credential,
                       inflight, logged_out>>

\* A session-check request is handled.
SessionCheck ==
    \E req \in [session : SessionHeaders] :
        LET r == SessionCheckHandle(sessions, req) IN
        /\ sessions' = r.sessions
        /\ last' = [op |-> "check", req |-> req, ldap_result |-> "none",
                    outcome |-> None, resp |-> r.resp, calls |-> r.calls,
                    before |-> sessions]
        /\ UNCHANGED <<config, issued, https_port, redirect, credential,
                       inflight, logged_out>>

\* The session filter runs on a request.
Filter ==
    \E req \in [session : SessionHeaders] :
        LET r == SessionFilter(sessions, req) IN
        /\ sessions' = r.sessions
        /\ last' = [op |-> "filter", req |-> req, ldap_result |-> "none",
                    outcome |-> None, resp |-> r.resp, calls |-> r.calls,
                    before |-> sessions]
        /\ UNCHANGED <<config, issued, https_port, redirect, credential,
                       inflight, logged_out>>

\* The store expires a valid session on its own.
Expire ==
    \E id \in sessions :
        /\ sessions' = sessions \ {id}
        /\ last' = [op |-> "expire", req |-> [session |-> Some(id)],
                    ldap_result |-> "none", outcome |-> None, resp |-> None,
                    calls |-> <<>>, before |-> sessions]
        /\ UNCHANGED <<config, issued, https_port, redirect, credential,
                       inflight, logged_out>>

Next == Login \/ Logout \/ SessionCheck \/ Filter \/ Expire

Spec == Init /\ [][Next]_vars

\* ------------------------------------------- the redirect service on its own

InitRedirect ==
    /\ config = [admin |-> None, ldap |-> None]
    /\ sessions = {}
    /\ issued = 0
    /\ last = NoRequest
    /\ https_port \in HttpsPorts
    /\ redirect = NoRedirect
    /\ credential = NoCredential
    /\ inflight = [w \in Workers |-> Idle]
    /\ logged_out = {}

\* A request arrives on the plaintext listener.
Redirect ==
    \E uri \in RequestUris, host \in HostHeaders :
        LET req == [uri |-> uri, headers |-> [host |-> host]]
            r == RedirectHandle(https_port, req)
        IN  /\ redirect' = [called |-> TRUE, req |-> req,
                            new_uri_str |-> r.new_uri_str, resp |-> r.resp]
            /\ UNCHANGED <<config, sessions, issued, last, https_port, credential,
                           inflight, logged_out>>

NextRedirect == Redirect

SpecRedirect == InitRedirect /\ [][NextRedirect]_vars

\* ---------------------------------------- the credential primitive on its own

CredentialPasswords == Passwords \cup {<<>>}
CredentialSalts == {<<"s">>, <<"t">>, <<"s", "t">>}

\* Hashes written into the configuration by hand: not hex, an odd number of
\* hex characters, a hash cut short to its first byte, a hash with one byte
\* more, and a hash with a line break in it.
HandWrittenHashes ==
    LET good == store_password(<<"p">>, <<"s">>) IN
    { <<"z", "z">>,
      <<"1", "4", "2">>,
      SubSeq(good, 1, 2),
      good \o <<"0", "0">>,
      SubSeq(good, 1, 32) \o <<"\n">> \o SubSeq(good, 33, 64) }

InitCredential ==
    /\ config = [admin |-> None, ldap |-> None]
    /\ sessions = {}
    /\ issued = 0
    /\ last = NoRequest
    /\ https_port = 8443
    /\ redirect = NoRedirect
    /\ credential = NoCredential
    /\ inflight = [w \in Workers |-> Idle]
    /\ logged_out = {}

\* store_password derives the hash that is stored.
StorePassword ==
    \E pass \in CredentialPasswords, salt \in CredentialSalts :
        /\ credential' = [hash |-> Some(store_password(pass, salt)),
                          from |-> Some([pass |-> pass, salt |-> salt]),
                          check |-> None]
        /\ UNCHANGED <<config, sessions, issued, last, https_port, redirect,
                       inflight, logged_out>>

\* A hash is put into the configuration by hand.
StoreHash ==
    \E h \in HandWrittenHashes :
        /\ credential' = [hash |-> Some(h), from |-> None, check |-> None]
        /\ UNCHANGED <<config, sessions, issued, last, https_port, redirect,
                       inflight, logged_out>>

\* verify_password checks a password and a salt against the stored hash.
VerifyPassword ==
    /\ credential.hash.some
    /\ \E pass \in CredentialPasswords, salt \in CredentialSalts :
          credential' =
              [credential EXCEPT !.check =
                  Some([pass |-> pass, salt |-> salt,
                        result |-> verify_password(pass, salt,
                                                   credential.hash.val)])]
    /\ UNCHANGED <<config, sessions, issued, last, https_port, redirect,
                   inflight, logged_out>>

NextCredential == StorePassword \/ StoreHash \/ VerifyPassword

SpecCredential == InitCredential /\ [][NextCredential]_vars

\* -------------------------------------- requests handled at the same time

\* The number of sessions minted while requests overlap.
MaxInflightSessions == 2

InflightHeaders == {None} \cup {Some(h) : h \in IssuedIds \cup {<<"x">>}}

InflightLogin == [username |-> <<"t">>, password |-> <<"p">>]

InflightRequests ==
    {[op |-> "login", req |-> InflightLogin]}
    \cup [op : {"logout", "check", "filter"}, req : [session : InflightHeaders]]

\* The identifier a session request names, if it names one.
NamedSession(op, req) == IF op = "login" THEN None ELSE get_session(req)

InitConcurrent ==
    /\ config = [admin |-> None, ldap |-> Some(<<"l">>)]
    /\ sessions = {}
    /\ issued = 0
    /\ last = NoRequest
    /\ https_port = 8443
    /\ redirect = NoRedirect
    /\ credential = NoCredential
    /\ inflight = [w \in Workers |-> Idle]
    /\ logged_out = {}

\* A worker takes up a request. after_logout records whether a logout for
\* the identifier the request names had returned by then.
Begin(w) ==
    /\ inflight[w] = Idle
    /\ \E r \in InflightRequests :
          LET sess == NamedSession(r.op, r.req) IN
          inflight' = [inflight EXCEPT ![w] =
              [pc |-> "begun", op |-> r.op, req |-> r.req,
               after_logout |-> sess.some /\ sess.val \in logged_out]]
    /\ UNCHANGED <<config, sessions, issued, last, https_port, redirect,
                   credential, logged_out>>

\* The handler of the request runs up to its response. It calls the store
\* at most once, and the store serves that call as one step.
LoginStep(w) ==
    /\ inflight[w].pc = "begun" /\ inflight[w].op = "login"
    /\ \E ldap_result \in LdapResults :
          LET r == LoginHandle(AdminStep(config, inflight[w].req), config,
                               sessions, issued, inflight[w].req,
                               ldap_result) IN
          /\ r.issued <= MaxInflightSessions
          /\ sessions' = r.sessions
          /\ issued' = r.issued
          /\ inflight' = [inflight EXCEPT ![w] =
                 [pc |-> "done", op |-> "login", req |-> inflight[w].req,
                  after_logout |-> FALSE, resp |-> r.resp]]
    /\ UNCHANGED <<config, last, https_port, redirect, credential, logged_out>>

SessionStep(w) ==
    /\ inflight[w].pc = "begun" /\ inflight[w].op # "login"
    /\ LET r == CASE inflight[w].op = "logout" ->
                        LogoutHandle(sessions, inflight[w].req)
                  [] inflight[w].op = "check" ->
                        SessionCheckHandle(sessions, inflight[w].req)
                  [] inflight[w].op = "filter" ->
                        SessionFilter(sessions, inflight[w].req)
       IN /\ sessions' = r.sessions
          /\ inflight' = [inflight EXCEPT ![w] =
                 [pc |-> "done", op |-> inflight[w].op,
                  req |-> inflight[w].req,
                  after_logout |-> inflight[w].after_logout,
                  resp |-> r.resp]]
    /\ UNCHANGED <<config, issued, last, https_port, redirect, credential,
                   logged_out>>

\* The response reaches the caller; a logout that named an identifier has
\* returned for it.
Return(w) ==
    /\ inflight[w].pc = "done"
    /\ inflight' = [inflight EXCEPT ![w] = Idle]
    /\ logged_out' =
          LET sess == NamedSession(inflight[w].op, inflight[w].req) IN
          IF inflight[w].op = "logout" /\ sess.some
          THEN logged_out \cup {sess.val}
          ELSE logged_out
    /\ UNCHANGED <<config, sessions, issued, last, https_port, redirect,
                   credential>>

\* The store expires a valid session while requests are in flight.
StoreExpires ==
    /\ \E id \in sessions : sessions' = sessions \ {id}
    /\ UNCHANGED <<config, issued, last, https_port, redirect, credential,
                   inflight, logged_out>>

NextConcurrent ==
    \/ \E w \in Workers : Begin(w)
    \/ \E w \in Workers : LoginStep(w)
    \/ \E w \in Workers : SessionStep(w)
    \/ \E w \in Workers : Return(w)
    \/ StoreExpires

SpecConcurrent == InitConcurrent /\ [][NextConcurrent]_vars

\* ------------------------------------------------------ claims about login

\* The admin identity claims the username of the request.
AdminClaims(login_req) ==
    config.admin.some /\ config.admin.val.name = login_req.username

\* The password of the request verifies against the admin salt and hash.
AdminPasswordVerifies(login_req) ==
    verify_password(login_req.password, config.admin.val.salt,
                    config.admin.val.pass_hash)

\* How many of the calls are calls of fn.
CallsOf(calls, fn) == Cardinality({i \in DOMAIN calls : calls[i][1] = fn})

Unauthorized401 == [status |-> 401, body |-> <<>>]

\* The login minted exactly one identifier, registered it with the store,
\* and answered 200 with the JSON body that carries it.
MintedAndReturned ==
    /\ last.resp.status = 200
    /\ CallsOf(last.calls, "new_session") = 1
    /\ \E id \in sessions \ last.before :
          /\ sessions = last.before \cup {id}
          /\ last.resp.body =
                 <<"{", "\"session\"", ":", "\"">> \o id \o <<"\"", "}">>

\* C1: a login as the administrator name with a password that fails
\* verification is answered 401 without any call to the directory, whatever
\* the directory configuration and whatever the directory would have said.
C1_AdminRejectedWithoutDirectory ==
    (last.op = "login" /\ AdminClaims(last.req)
        /\ ~AdminPasswordVerifies(last.req))
    => /\ last.resp.status = 401
       /\ CallsOf(last.calls, "ldap_auth::auth") = 0

\* A wrong admin password was rejected although a directory is configured
\* that would have accepted the login.
C1_Witness ==
    /\ last.op = "login" /\ AdminClaims(last.req)
    /\ ~AdminPasswordVerifies(last.req)
    /\ config.ldap.some /\ last.ldap_result = "Ok(true)"
    /\ last.resp.status = 401

\* C2: a login as the administrator name with a password that verifies
\* mints a session through the store and is answered 200 with a JSON body
\* carrying exactly the minted identifier, without any call to the directory.
C2_AdminAcceptedMintsSession ==
    (last.op = "login" /\ AdminClaims(last.req)
        /\ AdminPasswordVerifies(last.req))
    => /\ MintedAndReturned
       /\ CallsOf(last.calls, "ldap_auth::auth") = 0

\* The right admin password was accepted, with a directory configured that
\* would have rejected the login, and a second session is in the store.
C2_Witness ==
    /\ last.op = "login" /\ AdminClaims(last.req)
    /\ AdminPasswordVerifies(last.req)
    /\ config.ldap.some /\ last.ldap_result = "Ok(false)"
    /\ last.resp.status = 200
    /\ Cardinality(sessions) = 2

\* C3: a login whose username the admin identity does not claim, with a
\* directory configured, is answered 200 with a minted session identifier
\* when the directory accepts, and 401 with an empty body when the directory
\* rejects or faults.
C3_DirectoryDecides ==
    (last.op = "login" /\ ~AdminClaims(last.req) /\ config.ldap.some)
    => /\ last.ldap_result = "Ok(true)" => MintedAndReturned
       /\ last.ldap_result \in {"Ok(false)", "Err"}
              => last.resp = Unauthorized401

\* The directory faulted on a username that differs from the configured
\* admin name, and the login was answered 401.
C3_Witness ==
    /\ last.op = "login" /\ config.admin.some /\ ~AdminClaims(last.req)
    /\ config.ldap.some /\ last.ldap_result = "Err"
    /\ last.resp.status = 401

\* C4: a login answered 200 called new_session exactly once, as its last
\* call and with the outcome Authenticated; a login answered 401 did not
\* call it, its outcome is Unknown or Rejected, and the set of valid
\* sessions is what it was before; no login is answered otherwise.
C4_SessionOnlyOnSuccess ==
    last.op = "login"
    => /\ last.resp.status \in {200, 401}
       /\ last.resp.status = 200
              => /\ CallsOf(last.calls, "new_session") = 1
                 /\ last.calls[Len(last.calls)] = <<"new_session">>
                 /\ last.outcome = Some(TRUE)
                 /\ Cardinality(sessions \ last.before) = 1
       /\ last.resp.status = 401
              => /\ CallsOf(last.calls, "new_session") = 0
                 /\ last.outcome \in {None, Some(FALSE)}
                 /\ sessions = last.before

\* A login failed after the directory was asked, with sessions in the store.
C4_Witness ==
    /\ last.op = "login" /\ last.resp.status = 401
    /\ CallsOf(last.calls, "ldap_auth::auth") = 1
    /\ last.before # {} /\ sessions = last.before

\* C5: every failed login, whatever made it fail (a rejected admin
\* password, a rejection by the directory, a fault of the directory, no
\* authentication source for the username), gets one and the same response:
\* 401 with an empty body.
C5_FailuresIndistinguishable ==
    (/\ last.op = "login"
     /\ \/ AdminClaims(last.req) /\ ~AdminPasswordVerifies(last.req)
        \/ ~AdminClaims(last.req) /\ config.ldap.some
               /\ last.ldap_result \in {"Ok(false)", "Err"}
        \/ ~AdminClaims(last.req) /\ ~config.ldap.some)
    => last.resp = Unauthorized401

\* A login failed for want of any authentication source for the username.
C5_Witness ==
    /\ last.op = "login" /\ ~AdminClaims(last.req) /\ ~config.ldap.some
    /\ config.admin.some
    /\ last.resp.status = 401

\* ------------------------------------- claims about the session handlers

Forbidden403 == [status |-> 403, body |-> <<"Invalid session">>]
Ok200Empty == [status |-> 200, body |-> <<>>]
Ok200EmptyJson == [status |-> 200, body |-> <<"{", "}">>]
FilterContinue == [kind |-> "Continue"]
FilterHalt403 == [kind |-> "Halt", resp |-> Forbidden403]

\* The last request came with a `session` header.
HasSessionHeader == last.req.session.some

\* The value of the `session` header of the last request.
SessionHeader == last.req.session.val

\* The identifier a handler reads from that header: its text, a byte that
\* is not UTF-8 read as U+FFFD.
SessionIdRead == from_utf8_lossy(SessionHeader)

\* C6: the session filter returns Continue exactly when the request has a
\* `session` header whose value the store holds as valid, and otherwise
\* (no header, or a value that is not valid) Halt with the 403
\* "Invalid session" response.
C6_FilterContinuesIffValid ==
    last.op = "filter"
    => IF HasSessionHeader /\ SessionHeader \in last.before
       THEN last.resp = FilterContinue
       ELSE last.resp = FilterHalt403

\* The filter let a request through on one of two valid sessions.
C6_Witness ==
    /\ last.op = "filter" /\ HasSessionHeader
    /\ SessionHeader \in last.before /\ Cardinality(last.before) = 2
    /\ last.resp = FilterContinue

\* C7: a request without a `session` header gets the 403 "Invalid session"
\* response from the logout handler, from the session-check handler and (as
\* Halt) from the filter, and none of them calls the store, which stays as
\* it was.
C7_MissingHeaderForbidden ==
    (last.op \in {"logout", "check", "filter"} /\ ~HasSessionHeader)
    => /\ last.op \in {"logout", "check"} => last.resp = Forbidden403
       /\ last.op = "filter" => last.resp = FilterHalt403
       /\ last.calls = <<>>
       /\ sessions = last.before

\* A logout without a header was refused while the store holds sessions.
C7_Witness ==
    /\ last.op = "logout" /\ ~HasSessionHeader
    /\ last.resp.status = 403 /\ sessions # {}

\* A logout with a header removes the identifier it reads and answers 200 {}.
C8_LogoutAlwaysOk ==
    (last.op = "logout" /\ HasSessionHeader)
    => /\ last.resp = Ok200EmptyJson
       /\ last.calls = << <<"remove_session", SessionIdRead>> >>
       /\ sessions = last.before \ {SessionIdRead}

\* The same logout again changes neither the response nor the store.
C8_LogoutAgain ==
    (/\ last.op = "logout" /\ HasSessionHeader
     /\ last'.op = "logout" /\ last'.req = last.req)
    => /\ last'.resp = last.resp
       /\ sessions' = sessions

\* C8: a logout that carries a `session` header calls remove_session on
\* the identifier and answers 200 with the body {}, whether the identifier
\* is valid, was removed before or never existed; the same logout repeated
\* gives the same response and the same store as the first.
C8_LogoutIdempotent == []C8_LogoutAlwaysOk /\ [][C8_LogoutAgain]_vars

\* A logout of an identifier that was removed before was answered 200.
C8_Witness ==
    /\ last.op = "logout" /\ HasSessionHeader
    /\ SessionHeader \in IssuedIds /\ SessionHeader \notin last.before
    /\ last.resp.status = 200

\* The identifier a successful login returns is valid; a check or a filter
\* of a valid identifier is accepted and of any other refused; after a
\* logout its identifier is not valid.
C9_ValidAccepted ==
    /\ (last.op = "login" /\ last.resp.status = 200)
       => \E id \in sessions :
             last.resp.body = <<"{", "\"session\"", ":", "\"">> \o id \o <<"\"", "}">>
    /\ (last.op = "check" /\ HasSessionHeader)
       => last.resp = (IF SessionHeader \in last.before
                       THEN Ok200Empty ELSE Forbidden403)
    /\ (last.op = "filter" /\ HasSessionHeader)
       => last.resp = (IF SessionHeader \in last.before
                       THEN FilterContinue ELSE FilterHalt403)
    /\ (last.op = "logout" /\ HasSessionHeader)
       => SessionHeader \notin sessions

\* A valid identifier stays valid unless this step is a logout for it or
\* its expiry, and an identifier that was issued and is not valid, or that
\* the store never issued, does not become valid.
C9_OnlyRemovedOrExpired ==
    /\ \A id \in sessions :
          id \notin sessions'
          => /\ last'.op \in {"logout", "expire"}
             /\ last'.req.session = Some(id)
    /\ \A id \in sessions' \ sessions :
          /\ id \notin IssuedIds
          /\ last'.op = "login"

\* C9: an identifier returned by a successful login is accepted by the
\* session check (200) and by the filter (Continue) until a logout removes
\* it or the store expires it; once a logout for it has completed every
\* later check answers 403 and every later filter Halts, and the identifier
\* never becomes valid again.
C9_SessionLifecycle == []C9_ValidAccepted /\ [][C9_OnlyRemovedOrExpired]_vars

\* A logout removed a session that a login had returned, leaving another.
C9_Witness ==
    /\ last.op = "logout" /\ HasSessionHeader
    /\ SessionHeader \in last.before /\ SessionHeader \notin sessions
    /\ sessions # {}

\* --------------------------------------------- claims about the redirect

\* The Host header of the redirected request as a Uri, if it is one.
HeaderUri ==
    IF redirect.req.headers.host.some THEN redirect.req.headers.host.val.uri
    ELSE None

\* The source the host is taken from: the request URI if it has a host,
\* otherwise the Host header if it has one; none if neither has.
HostSource ==
    IF redirect.req.uri.host.some THEN Some(redirect.req.uri)
    ELSE IF HeaderUri.some /\ HeaderUri.val.host.some THEN HeaderUri
    ELSE None

SourceHost == IF HostSource.some THEN HostSource.val.host.val ELSE <<>>
SourcePort == IF HostSource.some THEN HostSource.val.port ELSE None

\* What follows "https://" and the host in the rewritten URL.
AfterHost ==
    SubSeq(redirect.new_uri_str, 8 + Len(SourceHost) + 1,
           Len(redirect.new_uri_str))

PortSuffixPresent == AfterHost # <<>> /\ AfterHost[1] = ":"

IsDigit(c) == c \in {"0", "1", "2", "3", "4", "5", "6", "7", "8", "9"}

\* The digits that follow the colon of the port suffix.
EmittedPort ==
    LET rest == Tail(AfterHost)
        stop == {i \in DOMAIN rest : ~IsDigit(rest[i])}
        n == IF stop = {} THEN Len(rest)
             ELSE (CHOOSE i \in stop : \A j \in stop : i <= j) - 1
    IN  SubSeq(rest, 1, n)

DigitValue(c) == CHOOSE d \in 0..9 : DecimalDigits[d + 1] = c

\* The number a string of decimal digits denotes.
RECURSIVE ParseDecimal(_)
ParseDecimal(digits) ==
    IF digits = <<>> THEN 0
    ELSE 10 * ParseDecimal(SubSeq(digits, 1, Len(digits) - 1))
         + DigitValue(digits[Len(digits)])

\* C10: the rewritten URL has a ":port" suffix after the host exactly when
\* the source the host was taken from (the request URI if it has a host,
\* otherwise the Host header) carried a port; the port emitted is then the
\* configured HTTPS port, not the port the source carried; a port on the
\* Host header is ignored when the request URI supplied the host.
C10_PortSubstituted ==
    redirect.called
    => /\ PortSuffixPresent <=> SourcePort.some
       /\ PortSuffixPresent
              => /\ EmittedPort # <<>>
                 /\ ParseDecimal(EmittedPort) = https_port
                 /\ ParseDecimal(SourcePort.val) # https_port
                        => EmittedPort # SourcePort.val
       /\ (redirect.req.uri.host.some /\ ~redirect.req.uri.port.some)
              => ~PortSuffixPresent

\* The request URI named port 20, the Host header named a host with
\* another port, and the configured port was emitted.
C10_Witness ==
    /\ redirect.called
    /\ redirect.req.uri.host.some
    /\ redirect.req.uri.port = Some(<<"2", "0">>)
    /\ HeaderUri.some /\ HeaderUri.val.port = Some(<<"9", "9">>)
    /\ https_port = 8443
    /\ PortSuffixPresent
    /\ EmittedPort = <<"8", "4", "4", "3">>

\* Whether the rewritten URL starts with the given characters.
StartsWith(str, prefix) ==
    Len(str) >= Len(prefix) /\ SubSeq(str, 1, Len(prefix)) = prefix

HttpsPrefix == <<"h", "t", "t", "p", "s", ":", "/", "/">>

\* C11: the host of the rewritten URL is the host of the request URI if it
\* has one, whatever the Host header says; the host of the Host header only
\* if the request URI has none; the URL always starts with "https://"
\* followed by that host, and what follows the host is no more host: a port
\* suffix, the path, the query or nothing.
C11_HostPriority ==
    redirect.called
    => /\ redirect.req.uri.host.some
              => StartsWith(redirect.new_uri_str,
                            HttpsPrefix \o redirect.req.uri.host.val)
       /\ (~redirect.req.uri.host.some /\ HeaderUri.some
               /\ HeaderUri.val.host.some)
              => StartsWith(redirect.new_uri_str,
                            HttpsPrefix \o HeaderUri.val.host.val)
       /\ StartsWith(redirect.new_uri_str, HttpsPrefix \o SourceHost)
       /\ AfterHost = <<>> \/ AfterHost[1] \in {":", "/", "*", "?"}

\* The request URI and the Host header name different hosts, and the URL
\* starts with the host of the request URI.
C11_Witness ==
    /\ redirect.called
    /\ redirect.req.uri.host = Some(<<"h">>)
    /\ HeaderUri.some /\ HeaderUri.val.host = Some(<<"o">>)
    /\ StartsWith(redirect.new_uri_str, HttpsPrefix \o <<"h", "/">>)

\* Neither the request URI nor the Host header yields a host.
NoHostAnywhere ==
    /\ redirect.called
    /\ ~redirect.req.uri.host.some
    /\ ~(HeaderUri.some /\ HeaderUri.val.host.some)

\* C12: when neither the request URI nor the Host header yields a host,
\* the redirect handler answers with the server fault (500) and not with a
\* 301 whose Location has no host.
C12_HostlessIsServerFault ==
    NoHostAnywhere
    => /\ redirect.resp.status = 500
       /\ ~redirect.resp.location.some

\* C13: every request to the redirect service is answered either 301 with
\* the rewritten URL as its Location, when that URL is a header value, or
\* 500 with an empty body and no Location, when it is not; nothing else is
\* answered.
C13_RedirectOr500 ==
    redirect.called
    => IF \A i \in DOMAIN redirect.new_uri_str :
              redirect.new_uri_str[i] \notin {"\n", "\r", "0x00", "0x7F"}
       THEN redirect.resp = [status |-> 301, body |-> <<>>,
                             location |-> Some(redirect.new_uri_str)]
       ELSE redirect.resp = [status |-> 500, body |-> <<>>, location |-> None]

\* Handling a redirect runs no session operation and no handler.
C13_NothingElseRuns ==
    redirect' # redirect => UNCHANGED <<sessions, issued, last, config>>

C13_RedirectResponses == []C13_RedirectOr500 /\ [][C13_NothingElseRuns]_vars

\* A request with a path and a query, its host taken from the Host header,
\* was redirected with the whole rewritten URL as the Location.
C13_Witness ==
    /\ redirect.called
    /\ ~redirect.req.uri.host.some /\ redirect.req.uri.query.some
    /\ HeaderUri.some /\ HeaderUri.val.host.some
    /\ redirect.resp.status = 301
    /\ redirect.resp.location = Some(redirect.new_uri_str)
    /\ Len(redirect.new_uri_str) > 12

\* ------------------------------------ claims about the credential primitive

\* C14: a password verifies against the hash store_password derived from
\* it, under the salt it was derived with: for every password and salt,
\* verify_password(password, salt, store_password(password, salt)) is true.
C14_RoundTrip ==
    (/\ credential.from.some /\ credential.check.some
     /\ credential.check.val.pass = credential.from.val.pass
     /\ credential.check.val.salt = credential.from.val.salt)
    => credential.check.val.result = TRUE

\* The empty password was stored under a two-character salt and verified.
C14_Witness ==
    /\ credential.from = Some([pass |-> <<>>, salt |-> <<"s", "t">>])
    /\ credential.check.some
    /\ credential.check.val.pass = <<>>
    /\ credential.check.val.salt = <<"s", "t">>
    /\ credential.check.val.result = TRUE

MalformedHash(pass_hash) ==
    \/ ~FromHex(pass_hash).ok
    \/ Len(FromHex(pass_hash).bytes) # CREDENTIAL_LEN

\* C16: verify_password fails closed: an admin login against a stored hash
\* that is not valid hex, or that decodes to another length than the
\* derived credential, is rejected with 401 whatever password is presented.
C16_MalformedHashRejected ==
    (/\ last.op = "login"
     /\ AdminClaims(last.req)
     /\ MalformedHash(config.admin.val.pass_hash))
    => /\ last.outcome = Some(FALSE)
       /\ last.resp = Unauthorized401

\* ------------------------------- the session check and the filter compared

\* C17: on the same request and the same store the session-check handler
\* and the filter decide alike: the handler answers 200 with an empty body
\* exactly when the filter returns Continue, and the 403 "Invalid session"
\* response exactly when the filter returns Halt with that response.
C17_CheckAgreesWithFilter ==
    /\ last.op = "check"
       => LET f == SessionFilter(last.before, last.req).resp IN
          /\ last.resp = Ok200Empty <=> f = FilterContinue
          /\ last.resp = Forbidden403 <=> f = FilterHalt403
          /\ last.resp \in {Ok200Empty, Forbidden403}
    /\ last.op = "filter"
       => LET c == SessionCheckHandle(last.before, last.req).resp IN
          /\ c = Ok200Empty <=> last.resp = FilterContinue
          /\ c = Forbidden403 <=> last.resp = FilterHalt403
          /\ last.resp \in {FilterContinue, FilterHalt403}

\* The check refused the header of a session that is no longer valid while
\* another session is, as the filter does.
C17_Witness ==
    /\ last.op = "check" /\ HasSessionHeader
    /\ SessionHeader \in IssuedIds /\ SessionHeader \notin last.before
    /\ last.before # {}
    /\ last.resp = Forbidden403
    /\ SessionFilter(last.before, last.req).resp = FilterHalt403

\* After a session check or a filter the store holds what it held before,
\* and all they called of the store is is_valid_session.
C18_ChecksLeaveStore ==
    last.op \in {"check", "filter"}
    => /\ sessions = last.before
       /\ \A i \in DOMAIN last.calls : last.calls[i][1] = "is_valid_session"

\* A step of the check or the filter keeps the set of valid sessions; a
\* step that adds a session is a login answered 200, and a handler step
\* that removes one is a logout with a header.
C18_OnlyLoginAddsLogoutRemoves ==
    /\ last'.op \in {"check", "filter"} => sessions' = sessions
    /\ sessions' \ sessions # {}
       => last'.op = "login" /\ last'.resp.status = 200
    /\ (sessions \ sessions' # {} /\ last'.op # "expire")
       => last'.op = "logout" /\ last'.req.session.some

\* C18: the session-check handler and the filter are read-only on the
\* session store: whatever the request and the outcome, the set of valid
\* sessions is the same after the call as before; only a successful login
\* adds a session and only a logout with a header removes one.
C18_ReadOnlyChecks ==
    []C18_ChecksLeaveStore /\ [][C18_OnlyLoginAddsLogoutRemoves]_vars

\* A check accepted one of two valid sessions and both are still valid.
C18_Witness ==
    /\ last.op = "check" /\ last.resp = Ok200Empty
    /\ Cardinality(last.before) = 2 /\ sessions = last.before

\* ------------------------------------------------ no retry of a login

\* C20: within one login request the directory is called at most once, also
\* when it faults or rejects; the request then ends with the one 401
\* response: the call of the directory is the only call the request made,
\* made for the credentials of the request, the admin password is not
\* verified after it, and no session is minted.
C20_NoRetry ==
    last.op = "login"
    => /\ CallsOf(last.calls, "ldap_auth::auth") <= 1
       /\ (/\ CallsOf(last.calls, "ldap_auth::auth") = 1
           /\ last.ldap_result \in {"Ok(false)", "Err"})
          => /\ last.calls = << <<"ldap_auth::auth", last.req.username,
                                  last.req.password, config.ldap.val>> >>
             /\ ~AdminClaims(last.req)
             /\ last.outcome = None
             /\ last.resp = Unauthorized401
             /\ sessions = last.before

\* The directory faulted on a login with the admin's password under another
\* name, with an admin configured, and the login ended with 401 after the
\* one call.
C20_Witness ==
    /\ last.op = "login" /\ config.admin.some /\ config.ldap.some
    /\ last.req.username # config.admin.val.name
    /\ verify_password(last.req.password, config.admin.val.salt,
                       config.admin.val.pass_hash)
    /\ last.ldap_result = "Err"
    /\ CallsOf(last.calls, "ldap_auth::auth") = 1
    /\ last.resp = Unauthorized401

\* ------------------------------------ claims about overlapping requests

\* The worker's handler runs in this step.
Handles(w) == inflight[w].pc = "begun" /\ inflight'[w].pc = "done"

\* The response of a finished check or filter is the rejection.
Rejected(slot) ==
    \/ slot.op = "check" /\ slot.resp = Forbidden403
    \/ slot.op = "filter" /\ slot.resp = FilterHalt403

\* The response of a finished check or filter is the acceptance.
Accepted(slot) ==
    \/ slot.op = "check" /\ slot.resp = Ok200Empty
    \/ slot.op = "filter" /\ slot.resp = FilterContinue

\* A check or a filter that began after a logout for its identifier had
\* returned is rejected.
C19_RejectedAfterLogout ==
    \A w \in Workers :
        (/\ inflight[w].pc = "done"
         /\ inflight[w].op \in {"check", "filter"}
         /\ inflight[w].after_logout)
        => Rejected(inflight[w])

\* A logout takes no other identifier than its own out of the store, and a
\* check or a filter of an identifier the store holds is accepted, whatever
\* the other workers are doing.
C19_OthersUntouched ==
    \A w \in Workers :
        Handles(w)
        => LET sess == NamedSession(inflight[w].op, inflight[w].req) IN
           /\ inflight[w].op = "logout"
              => \A id \in sessions :
                    (~sess.some \/ id # sess.val) => id \in sessions'
           /\ (/\ inflight[w].op \in {"check", "filter"}
               /\ sess.some /\ sess.val \in sessions)
              => Accepted(inflight'[w])

\* C19: under any interleaving of logins, logouts, session checks and
\* filter calls whose store operations are atomic, a check or filter for an
\* identifier that begins after a logout for it has returned is rejected,
\* and a logout never invalidates another session: a check of a session
\* that is valid, neither removed nor expired, still succeeds.
C19_ConcurrentSessions ==
    []C19_RejectedAfterLogout /\ [][C19_OthersUntouched]_vars

\* A check that began after the logout of its session had returned was
\* rejected while the other worker's check of another, valid session was
\* accepted.
C19_Witness ==
    \E w, v \in Workers :
        /\ w # v
        /\ inflight[w].pc = "done" /\ inflight[w].op = "check"
        /\ inflight[w].after_logout /\ Rejected(inflight[w])
        /\ inflight[v].pc = "done" /\ inflight[v].op = "check"
        /\ inflight[v].req.session.some
        /\ inflight[v].req.session.val \in sessions
        /\ Accepted(inflight[v])

====
